---- MODULE Spec2Model ----
(***************************************************************************)
(* DatabaseManager and TableOperationsImpl of the MetricsHub SDK           *)
(* (src/src/database/database-manager.ts) as a state machine.              *)
(*                                                                         *)
(* One DatabaseManager instance serves a bounded number of table-operation *)
(* calls.  A call is an async function: it runs synchronously up to its    *)
(* next remote await, then suspends until the response of that request     *)
(* arrives.  Each action below is one such run: the synchronous code       *)
(* between two suspension points of one call.  Calls interleave only at    *)
(* their remote awaits (JavaScript runs one callback at a time).  The      *)
(* continuation of `await ensureTable(...)` reads no shared state, so it   *)
(* is run in the same step as the return of ensureTable.                   *)
(***************************************************************************)
EXTENDS Integers, Sequences, FiniteSets, TLC

(* ---------------------------- bounds ----------------------------------- *)

\* number of table-operation calls made on the instance
MaxCalls == 2
Calls == 1..MaxCalls

(* ---------------------------- inputs ----------------------------------- *)

\* tables of the caller's schema (MetricsHubSDK.initializeDatabase makes one
\* TableOperationsImpl per table, all sharing the DatabaseManager)
TableNames == {"users", "orders"}

\* the nine methods of TableOperations
Operations ==
  {"select", "selectOne", "insert", "insertMany", "update", "updateWhere",
   "delete", "deleteWhere", "count"}

\* the table schema's fields: `name` is required, `lastActive` is optional
FieldNames == {"name", "lastActive"}
RequiredFields == {"name"}

\* a payload is the set of keys it carries; "extra" is a key the schema
\* does not declare
Payloads == {{"name", "extra"}, {"lastActive"}}

\* payload lists for insertMany: empty, all valid, one element invalid
Batches == {<<>>, <<{"name", "extra"}, {"name"}>>, <<{"name"}, {"lastActive"}>>}

\* the argument a call is made with: a payload for insert, a payload list
\* for insertMany; the other methods' arguments are never validated
NoData == <<"none">>
ArgsOf(op) ==
  IF op = "insert" THEN Payloads
  ELSE IF op = "insertMany" THEN Batches
  ELSE {NoData}

(* ------------------------- remote answers ------------------------------ *)

\* What one fetch of apiCall can produce:
\*   transport_error  fetch rejects (or the body is not JSON)
\*   http_error       a response whose status is not OK
\*   otherwise        an OK response, named by the fields of its body
CheckAnswers  == {"exists", "absent", "noflag", "http_error", "transport_error"}
ResultAnswers == {"ok", "rejected", "http_error", "transport_error"}

\* the control-plane endpoints and the query endpoint
ControlPlane == {"/check-table", "/ensure-schema", "/ensure-table"}
Endpoints == ControlPlane \cup {"/query"}

(* ------------------------- pure helpers -------------------------------- *)

\* DatabaseManager.constructor: the namespace, computed once from the config
schemaName == "app_demo_company_acme"

\* `${this.schemaName}.${tableName}`: schemaName holds no dot, so the key
\* determines the pair
tableKey(t) == <<schemaName, t>>

\* apiCall throws when fetch rejects and when the response is not OK,
\* otherwise it returns the parsed body
apiCallThrows(a) == a \in {"http_error", "transport_error"}

\* mutant: the catch block answers true
checkTableExists_catchTrue(a) == IF apiCallThrows(a) THEN TRUE ELSE a = "exists"

\* mutant: only an explicit exists:false counts as absent
checkTableExists_noFlagTrue(a) == IF apiCallThrows(a) THEN FALSE ELSE a # "absent"

\* mutant: the answer is ignored and the table is always created
checkTableExists_neverTrue(a) == FALSE

\* checkTableExists: response.data?.exists || false, and false when apiCall
\* throws
checkTableExists(a) == IF apiCallThrows(a) THEN FALSE ELSE a = "exists"

\* response.success of a body returned by apiCall
responseSuccess(a) == a = "ok"

\* the error a call fails with: the error apiCall throws, or the Error built
\* from a success:false body, named by the endpoint and the answer it is from
ErrorOf(endpoint, a) == [at |-> endpoint, kind |-> a]
ValidationError == [at |-> "parse", kind |-> "validation"]

\* zodSchema.parse: throws when a required field is missing, else returns
\* the payload without the keys the schema does not declare
parseThrows(p) == ~(RequiredFields \subseteq p)
parse(p) == p \cap FieldNames

\* the `operation` discriminator each method passes to DatabaseManager.query
QueryOperation(op) ==
  CASE op \in {"select", "selectOne", "count"} -> "select"
    [] op \in {"insert", "insertMany"} -> "insert"
    [] op \in {"update", "updateWhere"} -> "update"
    [] op \in {"delete", "deleteWhere"} -> "delete"

\* does the method validate its argument, and does the argument fail
ValidationFails(op, data) ==
  CASE op = "insert" -> parseThrows(data)
    [] op = "insertMany" -> \E i \in 1..Len(data) : parseThrows(data[i])
    [] OTHER -> FALSE

\* the validated data an insert sends
ValidatedData(op, data) ==
  CASE op = "insert" -> parse(data)
    [] op = "insertMany" -> [i \in 1..Len(data) |-> parse(data[i])]
    [] OTHER -> NoData

\* request bodies
CheckTableRequest(t) ==
  [endpoint |-> "/check-table", schemaName |-> schemaName, tableName |-> t]
\* (the ensure-schema body also carries the config's appId and companyId)
EnsureSchemaRequest ==
  [endpoint |-> "/ensure-schema", schemaName |-> schemaName]
EnsureTableRequest(t) ==
  [endpoint |-> "/ensure-table", schemaName |-> schemaName, tableName |-> t]
QueryRequest(t, op, data) ==
  [endpoint |-> "/query", schemaName |-> schemaName, tableName |-> t,
   operation |-> QueryOperation(op), data |-> ValidatedData(op, data)]

(* ------------------------------ state ---------------------------------- *)

VARIABLES
  createdTables,  \* DatabaseManager.createdTables: the provisioning cache
  pc,             \* per call: where the call is suspended
  call,           \* per call: the method, its table and its argument
  sent,           \* per call: the requests it has sent, in order
  lastAnswer,     \* per call: the answer it received last
  result,         \* per call: what it returned or threw
  confirmed,      \* tables with a positive check-table answer or a
                  \* successful ensure-table response received so far
  overlap,        \* pairs <<c, d>>: c entered provisioning of a table while
                  \* d was provisioning the same table
  health,         \* the control plane: "unreliable" while its answers may be
                  \* failures, "healthy" once every answer is a success
  stage,          \* evaluation of a pure function: how far it has run
  input,          \* evaluation of a pure function: its arguments
  output          \* evaluation of a pure function: what it produced

managerVars ==
  <<createdTables, pc, call, sent, lastAnswer, result, confirmed, overlap,
    health>>
pureVars == <<stage, input, output>>
vars == <<managerVars, pureVars>>

\* the pure functions are not being evaluated
NoEvaluation == stage = "off" /\ input = "none" /\ output = "none"

NoCall == [op |-> "none", table |-> "none", data |-> NoData]
NoResult == [status |-> "pending"]
Returned(v) == [status |-> "returned", value |-> v]
Threw(e) == [status |-> "threw", error |-> e]

Provisioning == {"awaitCheck", "awaitSchema", "awaitCreate"}

Init ==
  /\ createdTables = {}
  /\ pc = [c \in Calls |-> "idle"]
  /\ call = [c \in Calls |-> NoCall]
  /\ sent = [c \in Calls |-> <<>>]
  /\ lastAnswer = [c \in Calls |-> "none"]
  /\ result = [c \in Calls |-> NoResult]
  /\ confirmed = {}
  /\ overlap = {}
  /\ health = "unreliable"
  /\ NoEvaluation

(* ----------------------------- steps ------------------------------------ *)

\* mutant: the cache is never consulted
isCached_never(t) == FALSE

\* ensureTable, first lines: is the table's key in the cache
isCached(t) == tableKey(t) \in createdTables

\* mutants: the success flag of the body is not tested
ensureSchemaFails_onlyThrow(a) == apiCallThrows(a)
createTableFails_onlyThrow(a) == apiCallThrows(a)

\* mutant: createTable throws whatever the answer is
createTableFails_always(a) == TRUE

\* ensureSchema / createTable: the step fails when apiCall throws or the
\* body says success:false
ensureSchemaFails(a) == apiCallThrows(a) \/ ~responseSuccess(a)
createTableFails(a) == apiCallThrows(a) \/ ~responseSuccess(a)

\* The method's code after `await this.dbManager.ensureTable(...)` has
\* returned, up to the next await: insert and insertMany validate, then
\* every method sends its one query request.
afterEnsure(cl, sentSoFar) ==
  IF ValidationFails(cl.op, cl.data)
  THEN [pc |-> "threw", sent |-> sentSoFar, result |-> Threw(ValidationError)]
  ELSE [pc |-> "awaitQuery",
        sent |-> Append(sentSoFar, QueryRequest(cl.table, cl.op, cl.data)),
        result |-> NoResult]

\* mutant: a request that was not answered with success is sent once more
queryOutcome_retry(cl, a, sentSoFar) ==
  IF a # "ok" /\ Len(sentSoFar) < 5
  THEN [pc |-> "awaitQuery",
        sent |-> Append(sentSoFar, sentSoFar[Len(sentSoFar)]),
        result |-> NoResult]
  ELSE IF a # "ok"
  THEN [pc |-> "threw", sent |-> sentSoFar, result |-> Threw(ErrorOf("/query", a))]
  ELSE [pc |-> "returned", sent |-> sentSoFar, result |-> Returned("data")]

\* What a method does with the answer of its query request: apiCall's error
\* propagates; delete returns response.success; every other method throws on
\* success:false and returns the data otherwise.  No method sends again.
queryOutcome(cl, a, sentSoFar) ==
  IF apiCallThrows(a)
  THEN [pc |-> "threw", sent |-> sentSoFar, result |-> Threw(ErrorOf("/query", a))]
  ELSE IF cl.op = "delete"
  THEN [pc |-> "returned", sent |-> sentSoFar, result |-> Returned(responseSuccess(a))]
  ELSE IF ~responseSuccess(a)
  THEN [pc |-> "threw", sent |-> sentSoFar, result |-> Threw(ErrorOf("/query", a))]
  ELSE [pc |-> "returned", sent |-> sentSoFar, result |-> Returned("data")]

\* A caller invokes a method of a table's TableOperationsImpl.  The method
\* calls ensureTable, which returns at once for a cached table and otherwise
\* sends the check-table request and suspends.
\* Calls are numbered in the order they are invoked.
Invoke(c, op, t, data) ==
  /\ pc[c] = "idle"
  /\ \A d \in Calls : d < c => pc[d] # "idle"
  /\ LET cl == [op |-> op, table |-> t, data |-> data] IN
     /\ call' = [call EXCEPT ![c] = cl]
     /\ IF isCached(t)
        THEN LET k == afterEnsure(cl, <<>>) IN
             /\ pc' = [pc EXCEPT ![c] = k.pc]
             /\ sent' = [sent EXCEPT ![c] = k.sent]
             /\ result' = [result EXCEPT ![c] = k.result]
             /\ overlap' = overlap
        ELSE /\ pc' = [pc EXCEPT ![c] = "awaitCheck"]
             /\ sent' = [sent EXCEPT ![c] = <<CheckTableRequest(t)>>]
             /\ result' = result
             /\ overlap' = overlap \cup
                  {<<c, d>> : d \in {e \in Calls : /\ pc[e] \in Provisioning
                                                    /\ call[e].table = t}}
  /\ UNCHANGED <<createdTables, lastAnswer, confirmed, health>>
  /\ UNCHANGED pureVars

\* The answer of check-table arrives: checkTableExists returns, ensureTable
\* either caches and returns or goes on to createTable, whose first request
\* is ensure-schema.
CheckResponse(c, a) ==
  /\ pc[c] = "awaitCheck"
  /\ lastAnswer' = [lastAnswer EXCEPT ![c] = a]
  /\ confirmed' = IF a = "exists" THEN confirmed \cup {call[c].table} ELSE confirmed
  /\ IF checkTableExists(a)
     THEN LET k == afterEnsure(call[c], sent[c]) IN
          /\ createdTables' = createdTables \cup {tableKey(call[c].table)}
          /\ pc' = [pc EXCEPT ![c] = k.pc]
          /\ sent' = [sent EXCEPT ![c] = k.sent]
          /\ result' = [result EXCEPT ![c] = k.result]
     ELSE /\ createdTables' = createdTables
          /\ pc' = [pc EXCEPT ![c] = "awaitSchema"]
          /\ sent' = [sent EXCEPT ![c] = Append(@, EnsureSchemaRequest)]
          /\ result' = result
  /\ UNCHANGED <<call, overlap, health>>
  /\ UNCHANGED pureVars

\* The answer of ensure-schema arrives: ensureSchema throws or returns, and
\* createTable renders the DDL and sends ensure-table.
SchemaResponse(c, a) ==
  /\ pc[c] = "awaitSchema"
  /\ lastAnswer' = [lastAnswer EXCEPT ![c] = a]
  /\ IF ensureSchemaFails(a)
     THEN /\ pc' = [pc EXCEPT ![c] = "threw"]
          /\ result' = [result EXCEPT ![c] = Threw(ErrorOf("/ensure-schema", a))]
          /\ sent' = sent
     ELSE /\ pc' = [pc EXCEPT ![c] = "awaitCreate"]
          /\ result' = result
          /\ sent' = [sent EXCEPT ![c] = Append(@, EnsureTableRequest(call[c].table))]
  /\ UNCHANGED <<createdTables, call, confirmed, overlap, health>>
  /\ UNCHANGED pureVars

\* The answer of ensure-table arrives: createTable throws or returns, and
\* ensureTable caches the key and returns to the method.
CreateResponse(c, a) ==
  /\ pc[c] = "awaitCreate"
  /\ lastAnswer' = [lastAnswer EXCEPT ![c] = a]
  /\ confirmed' = IF a = "ok" THEN confirmed \cup {call[c].table} ELSE confirmed
  /\ IF createTableFails(a)
     THEN /\ pc' = [pc EXCEPT ![c] = "threw"]
          /\ result' = [result EXCEPT ![c] = Threw(ErrorOf("/ensure-table", a))]
          /\ sent' = sent
          /\ createdTables' = createdTables
     ELSE LET k == afterEnsure(call[c], sent[c]) IN
          /\ createdTables' = createdTables \cup {tableKey(call[c].table)}
          /\ pc' = [pc EXCEPT ![c] = k.pc]
          /\ sent' = [sent EXCEPT ![c] = k.sent]
          /\ result' = [result EXCEPT ![c] = k.result]
  /\ UNCHANGED <<call, overlap, health>>
  /\ UNCHANGED pureVars

\* The answer of the query request arrives and the method returns or throws.
QueryResponse(c, a) ==
  /\ pc[c] = "awaitQuery"
  /\ lastAnswer' = [lastAnswer EXCEPT ![c] = a]
  /\ LET k == queryOutcome(call[c], a, sent[c]) IN
     /\ pc' = [pc EXCEPT ![c] = k.pc]
     /\ sent' = [sent EXCEPT ![c] = k.sent]
     /\ result' = [result EXCEPT ![c] = k.result]
  /\ UNCHANGED <<createdTables, call, confirmed, overlap, health>>
  /\ UNCHANGED pureVars

Next ==
  \/ \E c \in Calls, op \in Operations, t \in TableNames :
       \E data \in ArgsOf(op) : Invoke(c, op, t, data)
  \/ \E c \in Calls, a \in CheckAnswers : CheckResponse(c, a)
  \/ \E c \in Calls, a \in ResultAnswers : SchemaResponse(c, a)
  \/ \E c \in Calls, a \in ResultAnswers : CreateResponse(c, a)
  \/ \E c \in Calls, a \in ResultAnswers : QueryResponse(c, a)

Spec == Init /\ [][Next]_vars

(* ------------------------ vocabulary of the claims ---------------------- *)

\* how many requests call c has sent to endpoint e
NumSent(c, e) == Cardinality({i \in 1..Len(sent[c]) : sent[c][i].endpoint = e})

\* call c sent the ensure-table (create table) request for table t
SentCreate(c, t) ==
  \E i \in 1..Len(sent[c]) : sent[c][i] = EnsureTableRequest(t)

Finished(c) == pc[c] \in {"returned", "threw"}

\* ensureTable of call c threw: the call failed with the error of a
\* provisioning request
EnsureFailed(c) ==
  /\ pc[c] = "threw"
  /\ result[c].error.at \in {"/ensure-schema", "/ensure-table"}

\* ensureTable of call c has returned to the method
EnsureReturned(c) == pc[c] \in {"awaitQuery", "returned", "threw"} /\ ~EnsureFailed(c)

\* call c found its table in the cache when it was invoked
CachedAtStart(c) ==
  /\ pc[c] # "idle"
  /\ (sent[c] = <<>> \/ sent[c][1].endpoint # "/check-table")

(* ------------------------------ claims ---------------------------------- *)

\* C1: first-time ensureTable callers for one table that are in flight at
\* the same time send at most one ensure-table request between them.
C1_OneCreatePerConcurrentCallers ==
  \A p \in overlap :
    ~(SentCreate(p[1], call[p[1]].table) /\ SentCreate(p[2], call[p[2]].table))

\* C2: first-time ensureTable callers for one table that are in flight at
\* the same time share one outcome: it never happens that ensureTable
\* returns for one of them and throws for the other.
C2_ConcurrentCallersShareOutcome ==
  \A p \in overlap :
    /\ ~(EnsureReturned(p[1]) /\ EnsureFailed(p[2]))
    /\ ~(EnsureFailed(p[1]) /\ EnsureReturned(p[2]))

\* C3: every key of the provisioning cache is the key of a table for which
\* the instance has received a positive check-table answer or a successful
\* ensure-table response.
C3_CacheOnlyConfirmed ==
  /\ createdTables \subseteq {tableKey(t) : t \in TableNames}
  /\ \A t \in TableNames : tableKey(t) \in createdTables => t \in confirmed

\* C3 witness: one table is cached while provisioning of the other table has
\* failed, once on an unanswerable check followed by a refused create.
C3_Witness ==
  /\ createdTables = {tableKey("users")}
  /\ \E c \in Calls :
       /\ call[c].table = "orders"
       /\ pc[c] = "threw"
       /\ result[c].error = ErrorOf("/ensure-table", "rejected")

\* C4: an insert or insertMany whose payload fails validation has sent no
\* request of any kind and, once finished, has failed with the validation
\* error.
C4_InvalidInsertSendsNothing ==
  \A c \in Calls :
    (call[c].op \in {"insert", "insertMany"} /\ ValidationFails(call[c].op, call[c].data))
      => /\ sent[c] = <<>>
         /\ Finished(c) => result[c] = Threw(ValidationError)

\* C5: a call that has sent a request to the query endpoint sent it for its
\* own table, and that table is confirmed (positive check-table answer or
\* successful ensure-table response received) and cached.
C5_QueryOnlyAfterConfirmed ==
  \A c \in Calls : \A i \in 1..Len(sent[c]) :
    sent[c][i].endpoint = "/query"
      => /\ sent[c][i].tableName = call[c].table
         /\ call[c].table \in confirmed
         /\ tableKey(call[c].table) \in createdTables

\* C5 witness: a deleteWhere has sent its query after creating its table.
C5_Witness ==
  \E c \in Calls :
    /\ call[c].op = "deleteWhere"
    /\ pc[c] = "awaitQuery"
    /\ Len(sent[c]) = 4
    /\ lastAnswer[c] = "ok"

\* call c takes a step: every action changes the pc of its call
StepOf(c) == pc'[c] # pc[c]

\* C6: when ensure-schema or ensure-table is answered with anything but
\* success, the call throws the error of that answer without sending
\* anything more and without writing the cache; the table of a failed
\* ensureTable is not cached unless another call's ensureTable returned for
\* it; the next call for that table, invoked after the failure, starts with
\* its own check-table request, as does every call invoked for an uncached
\* table.
C6_ProvisioningFailureIsFatal ==
  /\ [](\A c \in Calls :
          (EnsureFailed(c) /\ \A e \in Calls :
                                call[e].table = call[c].table => ~EnsureReturned(e))
            => /\ tableKey(call[c].table) \notin createdTables
               /\ NumSent(c, "/query") = 0
               /\ \A d \in Calls :
                    (c < d /\ pc[d] # "idle" /\ call[d].table = call[c].table
                       /\ <<d, c>> \notin overlap)
                      => /\ sent[d] # <<>>
                         /\ sent[d][1] = CheckTableRequest(call[d].table))
  /\ [][\A c \in Calls :
          /\ (pc[c] \in {"awaitSchema", "awaitCreate"} /\ StepOf(c) /\ lastAnswer'[c] # "ok")
               => /\ pc'[c] = "threw"
                  /\ result'[c] =
                       Threw(ErrorOf(IF pc[c] = "awaitSchema" THEN "/ensure-schema"
                                     ELSE "/ensure-table", lastAnswer'[c]))
                  /\ sent'[c] = sent[c]
                  /\ createdTables' = createdTables
          /\ (pc[c] = "idle" /\ StepOf(c) /\ tableKey(call'[c].table) \notin createdTables)
               => /\ pc'[c] = "awaitCheck"
                  /\ sent'[c] = <<CheckTableRequest(call'[c].table)>>]_vars

\* C6 witness: a call failed on a refused ensure-table, and a later call for
\* the same table, invoked after that failure, waits for its own check-table.
C6_Witness ==
  \E c, d \in Calls :
    /\ c < d
    /\ pc[c] = "threw"
    /\ result[c].error = ErrorOf("/ensure-table", "rejected")
    /\ call[d].table = call[c].table
    /\ pc[d] = "awaitCheck"
    /\ <<d, c>> \notin overlap

\* check-table answers that do not determine existence
Undetermined == {"noflag", "http_error", "transport_error"}

\* C7: when check-table is answered by a transport error, a non-OK status or
\* a body without exists flag, ensureTable sends ensure-schema and leaves the
\* cache alone; when ensure-schema then succeeds it sends ensure-table.
C7_UndeterminedCheckMeansAbsent ==
  [][\A c \in Calls :
       /\ (pc[c] = "awaitCheck" /\ StepOf(c) /\ lastAnswer'[c] \in Undetermined)
            => /\ pc'[c] = "awaitSchema"
               /\ sent'[c] = Append(sent[c], EnsureSchemaRequest)
               /\ createdTables' = createdTables
               /\ result'[c] = NoResult
       /\ (pc[c] = "awaitSchema" /\ StepOf(c) /\ lastAnswer'[c] = "ok")
            => /\ pc'[c] = "awaitCreate"
               /\ sent'[c] = Append(sent[c], EnsureTableRequest(call[c].table))
               /\ createdTables' = createdTables]_vars

\* C7 witness: a check answered without exists flag, the call now waiting
\* for ensure-schema with the table not cached.
C7_Witness ==
  \E c \in Calls :
    /\ pc[c] = "awaitSchema"
    /\ lastAnswer[c] = "noflag"
    /\ createdTables = {}

\* C8: the cache is empty at construction and only grows; a call invoked for
\* a cached table never sends a control-plane request.
C8_CacheAppendOnly ==
  /\ createdTables = {}
  /\ [](\A c \in Calls : CachedAtStart(c) => \A e \in ControlPlane : NumSent(c, e) = 0)
  /\ [][/\ createdTables \subseteq createdTables'
        /\ \A c \in Calls :
             (pc[c] = "idle" /\ StepOf(c) /\ tableKey(call'[c].table) \in createdTables)
               => /\ pc'[c] \notin Provisioning
                  /\ \A i \in 1..Len(sent'[c]) : sent'[c][i].endpoint = "/query"]_vars

\* C8 witness: a call invoked for a cached table has finished having sent
\* its query and nothing else.
C8_Witness ==
  \E c \in Calls :
    /\ CachedAtStart(c)
    /\ pc[c] = "returned"
    /\ Len(sent[c]) = 1
    /\ tableKey(call[c].table) \in createdTables

\* the endpoints call c has sent requests to, in order
EndpointsOf(c) == [i \in 1..Len(sent[c]) |-> sent[c][i].endpoint]
IsPrefix(s, t) == Len(s) <= Len(t) /\ \A i \in 1..Len(s) : s[i] = t[i]

\* C9: the requests of one call are check-table, ensure-schema,
\* ensure-table, in that order; ensure-schema is sent only on a check-table
\* answer that is not positive, ensure-table only on a successful
\* ensure-schema answer, and nothing is sent after a failed ensure-schema.
C9_ProvisioningOrder ==
  /\ [](\A c \in Calls :
          \/ IsPrefix(EndpointsOf(c), <<"/check-table", "/ensure-schema", "/ensure-table", "/query">>)
          \/ EndpointsOf(c) = <<"/check-table", "/query">>
          \/ EndpointsOf(c) = <<"/query">>)
  /\ [][\A c \in Calls :
          /\ (StepOf(c) /\ Len(sent'[c]) > Len(sent[c])
                /\ sent'[c][Len(sent'[c])].endpoint = "/ensure-schema")
               => pc[c] = "awaitCheck" /\ lastAnswer'[c] # "exists"
          /\ (StepOf(c) /\ Len(sent'[c]) > Len(sent[c])
                /\ sent'[c][Len(sent'[c])].endpoint = "/ensure-table")
               => pc[c] = "awaitSchema" /\ lastAnswer'[c] = "ok"
          /\ (pc[c] = "awaitCheck" /\ StepOf(c) /\ lastAnswer'[c] = "exists")
               => pc'[c] \notin Provisioning
          /\ (pc[c] = "awaitSchema" /\ StepOf(c) /\ lastAnswer'[c] # "ok")
               => sent'[c] = sent[c] /\ pc'[c] = "threw"]_vars

\* C9 witness: a call that went through the whole sequence.
C9_Witness ==
  \E c \in Calls :
    EndpointsOf(c) = <<"/check-table", "/ensure-schema", "/ensure-table", "/query">>

\* C10: no call sends more than one query request; a call whose ensureTable
\* returned and whose payload is valid has sent exactly one, its last
\* request; a call invoked for a cached table with a valid payload has sent
\* that one request and nothing else, whatever the answer was.
C10_OneQueryPerOperation ==
  \A c \in Calls :
    /\ NumSent(c, "/query") <= 1
    /\ (EnsureReturned(c) /\ ~ValidationFails(call[c].op, call[c].data))
         => /\ NumSent(c, "/query") = 1
            /\ sent[c][Len(sent[c])] = QueryRequest(call[c].table, call[c].op, call[c].data)
    /\ (CachedAtStart(c) /\ ~ValidationFails(call[c].op, call[c].data))
         => sent[c] = <<QueryRequest(call[c].table, call[c].op, call[c].data)>>

\* C10 witness: two identical inserts have finished; the second found the
\* table cached and was answered success:false.
C10_Witness ==
  \E c, d \in Calls :
    /\ c # d
    /\ call[c] = call[d]
    /\ call[c].op = "insert"
    /\ pc[c] = "returned"
    /\ CachedAtStart(d)
    /\ pc[d] = "threw"
    /\ result[d].error = ErrorOf("/query", "rejected")
    /\ NumSent(c, "/query") + NumSent(d, "/query") = 2

\* C11: a method whose query request was answered success:false has thrown
\* the error of that answer; none has returned a value.
C11_RejectedQueryThrows ==
  \A c \in Calls :
    (Finished(c) /\ NumSent(c, "/query") = 1 /\ lastAnswer[c] = "rejected")
      => result[c] = Threw(ErrorOf("/query", "rejected"))

(* ------------- the query each table operation sends, and its result ----- *)

\* arguments the methods are called with
Ids == {"id-1", "id-2"}
\* the where list update(id, ..) and delete(id) build
idCondition(id) == <<[column |-> "id", operator |-> "eq", value |-> id]>>
Wheres ==
  {<<>>, idCondition("id-1"),
   <<[column |-> "status", operator |-> "neq", value |-> "done"],
     [column |-> "name", operator |-> "like", value |-> "a%"]>>}
\* QueryOptions objects a caller passes; <<>> is the empty object {}
EmptyObject == <<>>
CallerLimit == 5
QueryOptionSets ==
  {EmptyObject, [limit |-> CallerLimit], [where |-> idCondition("id-2")],
   [where |-> idCondition("id-2"), limit |-> CallerLimit, offset |-> 2],
   [select |-> "name", limit |-> 1]}

\* one call of a table operation: the method and the arguments it is given
\* (an optional argument that is left out is no field of the record)
MethodCalls ==
  {[op |-> "select"], [op |-> "selectOne"], [op |-> "count"]}
  \cup [op : {"select", "selectOne"}, options : QueryOptionSets]
  \cup [op : {"insert"}, data : {p \in Payloads : ~parseThrows(p)}]
  \cup [op : {"insertMany"},
        data : {b \in Batches : \A i \in 1..Len(b) : ~parseThrows(b[i])}]
  \cup [op : {"update"}, id : Ids, data : Payloads]
  \cup [op : {"updateWhere"}, where : Wheres, data : Payloads]
  \cup [op : {"delete"}, id : Ids]
  \cup [op : {"deleteWhere", "count"}, where : Wheres]

\* { ...a, ...b }
spread(a, b) ==
  [k \in DOMAIN a \cup DOMAIN b |-> IF k \in DOMAIN b THEN b[k] ELSE a[k]]
\* an object literal with the properties whose value is undefined left out,
\* as JSON.stringify leaves them out of the request body
given(a, keys) == [k \in DOMAIN a \cap keys |-> a[k]]

selectOneOptions_callerWins(a) ==
  spread([limit |-> 1], IF "options" \in DOMAIN a THEN a.options ELSE EmptyObject)
\* selectOne: { ...options, limit: 1 }
selectOneOptions(a) ==
  spread(IF "options" \in DOMAIN a THEN a.options ELSE EmptyObject, [limit |-> 1])

updateOptions_noData(a) == [where |-> idCondition(a.id)]
\* update: { where: [{ column: 'id', operator: 'eq', value: id }], data }
updateOptions(a) == [where |-> idCondition(a.id), data |-> a.data]
\* updateWhere: { where, data, returnAll: true }
updateWhereOptions(a) ==
  [where |-> a.where, data |-> a.data, returnAll |-> TRUE]

\* the `options` each method passes to DatabaseManager.query
queryOptions(a) ==
  CASE a.op = "select" -> given(a, {"options"})
    [] a.op = "selectOne" -> [options |-> selectOneOptions(a)]
    [] a.op = "insert" -> [options |-> [data |-> parse(a.data)]]
    [] a.op = "insertMany" ->
         [options |-> [data |-> [i \in 1..Len(a.data) |-> parse(a.data[i])],
                       multiple |-> TRUE]]
    [] a.op = "update" -> [options |-> updateOptions(a)]
    [] a.op = "updateWhere" -> [options |-> updateWhereOptions(a)]
    [] a.op = "delete" -> [options |-> [where |-> idCondition(a.id)]]
    [] a.op = "deleteWhere" ->
         [options |-> [where |-> a.where, returnCount |-> TRUE]]
    [] a.op = "count" ->
         [options |-> spread([count |-> TRUE], given(a, {"where"}))]

\* DatabaseManager.query: the body posted to /query
queryBody(t, a) ==
  spread([endpoint |-> "/query", schemaName |-> schemaName, tableName |-> t,
          operation |-> QueryOperation(a.op)],
         queryOptions(a))

\* what the endpoint answers: apiCall throws, or a body comes back
Rows == {<<>>, <<"row-1">>, <<"row-1", "row-2">>}
RowData(rows) == [is |-> "rows", rows |-> rows]
CountData(n) == [is |-> "object", count |-> n, deletedCount |-> n]
NoResponseData == [is |-> "undefined"]
ResponseData ==
  {NoResponseData} \cup {RowData(r) : r \in Rows} \cup {CountData(n) : n \in {0, 2}}
\* error: "" stands for a body without an error message
QueryResponses ==
  [kind : {"http_error", "transport_error"}]
  \cup [kind : {"body"}, success : {TRUE}, data : ResponseData]
  \cup [kind : {"body"}, success : {FALSE}, error : {"", "permission denied"}]

\* the message of the Error a method throws on a success:false body
failureMessage(op) ==
  CASE op \in {"select", "selectOne"} -> "Select operation failed"
    [] op = "insert" -> "Insert operation failed"
    [] op = "insertMany" -> "Insert many operation failed"
    [] op = "update" -> "Update operation failed"
    [] op = "updateWhere" -> "Update where operation failed"
    [] op = "deleteWhere" -> "Delete where operation failed"
    [] op = "count" -> "Count operation failed"
    [] OTHER -> "none"
Failure(op, r) ==
  Threw([message |-> IF r.error = "" THEN failureMessage(op) ELSE r.error])

\* response.data || []
orEmptyList(d) == IF d.is = "undefined" THEN RowData(<<>>) ELSE d
\* response.data?.count || 0 and response.data?.deletedCount || 0
countOrZero(d) == IF d.is = "object" THEN d.count ELSE 0

Null == "null"
\* results.length > 0 ? results[0] : null
firstOrNull(list) ==
  IF list.is = "rows" /\ Len(list.rows) > 0 THEN list.rows[1] ELSE Null

\* what the method returns or throws once /query has answered
methodResult(op, r) ==
  IF r.kind # "body" THEN Threw(ErrorOf("/query", r.kind))
  ELSE IF op = "delete" THEN Returned(r.success)
  ELSE IF ~r.success THEN Failure(op, r)
  ELSE CASE op \in {"select", "insertMany", "updateWhere"} ->
              Returned(orEmptyList(r.data))
         [] op = "selectOne" -> Returned(firstOrNull(orEmptyList(r.data)))
         [] op \in {"insert", "update"} -> Returned(r.data)
         [] op \in {"deleteWhere", "count"} -> Returned(countOrZero(r.data))

\* the manager's own state plays no part while one method's request and
\* result are evaluated: it keeps its initial value
ManagerAtRest ==
  /\ createdTables = {}
  /\ pc = [c \in Calls |-> "idle"]
  /\ call = [c \in Calls |-> NoCall]
  /\ sent = [c \in Calls |-> <<>>]
  /\ lastAnswer = [c \in Calls |-> "none"]
  /\ result = [c \in Calls |-> NoResult]
  /\ confirmed = {}
  /\ overlap = {}
  /\ health = "unreliable"

InitQuery ==
  /\ ManagerAtRest
  /\ stage = "called"
  /\ input \in [table : TableNames, args : MethodCalls]
  /\ output = "none"

\* the method builds its request and posts it
SendQuery ==
  /\ stage = "called"
  /\ stage' = "sent"
  /\ output' = [request |-> queryBody(input.table, input.args)]
  /\ UNCHANGED <<input, managerVars>>

\* the endpoint answers and the method returns or throws
ReceiveAnswer(r) ==
  /\ stage = "sent"
  /\ stage' = "done"
  /\ output' = [request |-> output.request, response |-> r,
                result |-> methodResult(input.args.op, r)]
  /\ UNCHANGED <<input, managerVars>>

NextQuery ==
  \/ SendQuery
  \/ \E r \in QueryResponses : ReceiveAnswer(r)

SpecQuery == InitQuery /\ [][NextQuery]_vars

(* ----------------------- claims on the query requests ------------------- *)

\* the call updateWhere([{column:'id', operator:'eq', value:id}], payload)
\* for the id and payload of an update call
asUpdateWhere(a) ==
  [op |-> "updateWhere",
   where |-> <<[column |-> "id", operator |-> "eq", value |-> a.id]>>,
   data |-> a.data]

\* C12 as stated: the request update(id, payload) has sent is the request
\* updateWhere([{column:'id', operator:'eq', value:id}], payload) sends.
C12_UpdateSendsUpdateWhereRequest ==
  (stage # "called" /\ input.args.op = "update")
    => output.request = queryBody(input.table, asUpdateWhere(input.args))

\* C12: the request update(id, payload) has sent has the operation
\* discriminator, the where list and the data of the request that
\* updateWhere([{column:'id', operator:'eq', value:id}], payload) sends, and
\* differs from it in exactly one option: it has no returnAll, which
\* updateWhere sets to true.
C12_UpdateIsUpdateWhereWithoutReturnAll ==
  (stage # "called" /\ input.args.op = "update") =>
    LET u == output.request
        w == queryBody(input.table, asUpdateWhere(input.args))
    IN /\ DOMAIN u = DOMAIN w
       /\ \A k \in DOMAIN u \ {"options"} : u[k] = w[k]
       /\ u.operation = "update"
       /\ DOMAIN u.options = DOMAIN w.options \ {"returnAll"}
       /\ \A k \in DOMAIN u.options : u.options[k] = w.options[k]
       /\ w.options.returnAll = TRUE

C12_Witness ==
  /\ stage = "sent"
  /\ input.args = [op |-> "update", id |-> "id-2", data |-> {"lastActive"}]
  /\ output.request.options.where = idCondition("id-2")

\* the options a selectOne call was given ({} when it was given none)
callerOptions ==
  IF "options" \in DOMAIN input.args THEN input.args.options ELSE EmptyObject

\* C13: the request selectOne(options) has sent is the request select sends
\* for the caller's options with limit set to 1, whatever limit the caller
\* gave; on a successful answer it returns the first row of the answer, and
\* returns null, and throws nothing, when the answer has zero rows.
C13_SelectOneIsSelectLimitOne ==
  (stage # "called" /\ input.args.op = "selectOne") =>
    LET o == output.request.options
    IN /\ output.request =
            queryBody(input.table, [op |-> "select", options |-> o])
       /\ o.limit = 1
       /\ DOMAIN o = DOMAIN callerOptions \cup {"limit"}
       /\ \A k \in DOMAIN callerOptions \ {"limit"} : o[k] = callerOptions[k]
       /\ (stage = "done" /\ output.response.kind = "body"
             /\ output.response.success) =>
            LET d == output.response.data
            IN /\ output.result.status = "returned"
               /\ (d.is = "rows" /\ Len(d.rows) > 0)
                    => output.result = Returned(d.rows[1])
               /\ (d.is = "rows" /\ Len(d.rows) = 0)
                    => output.result = Returned(Null)

C13_Witness ==
  /\ stage = "done"
  /\ input.args.op = "selectOne"
  /\ callerOptions =
       [where |-> idCondition("id-2"), limit |-> CallerLimit, offset |-> 2]
  /\ output.response = [kind |-> "body", success |-> TRUE, data |-> RowData(<<>>)]
  /\ output.result = Returned(Null)

(* ------------------- the schema compiler (ZodSchemaParser) -------------- *)

\* A Zod type: the modifiers wrapped around it, outermost first, then the
\* base type with its checks in the order they were declared, and the
\* argument of .default() when there is one.
Modifiers == {"ZodOptional", "ZodNullable", "ZodDefault"}
Wrappings ==
  {w \in UNION {[1..n -> Modifiers] : n \in 0..Cardinality(Modifiers)} :
     \A i, j \in DOMAIN w : w[i] = w[j] => i = j}

Check(kind, value) == [kind |-> kind, value |-> value]
VarcharLimit == 255
StringChecks ==
  {<<>>, <<Check("max", 100)>>, <<Check("max", VarcharLimit)>>,
   <<Check("max", VarcharLimit + 1)>>, <<Check("uuid", 0)>>,
   <<Check("email", 0), Check("max", 100)>>,
   <<Check("max", 36), Check("uuid", 0)>>,
   <<Check("uuid", 0), Check("max", 36)>>,
   <<Check("max", 300), Check("uuid", 0)>>}
NumberChecks ==
  {<<>>, <<Check("int", 0)>>, <<Check("finite", 0)>>, <<Check("min", 0)>>,
   <<Check("int", 0), Check("finite", 0)>>,
   <<Check("finite", 0), Check("int", 0)>>,
   <<Check("min", 0), Check("int", 0)>>}
PlainKinds ==
  {"ZodBoolean", "ZodDate", "ZodObject", "ZodRecord", "ZodArray", "ZodEnum",
   "ZodLiteral"}
BaseTypes ==
  [base : {"ZodString"}, checks : StringChecks]
  \cup [base : {"ZodNumber"}, checks : NumberChecks]
  \cup [base : PlainKinds, checks : {<<>>}]

\* A JavaScript value a default can be: its typeof, whether it is a Date,
\* and its text (toString, toISOString or JSON.stringify) in fragments, a
\* single quote being a fragment of its own. The text of the Date that
\* `new Date()` makes is the clock's reading when it is made.
JsValue(typeof, isDate, text) ==
  [typeof |-> typeof, isDate |-> isDate, text |-> text]
CurrentTime == JsValue("object", TRUE, <<"now">>)
\* the argument of .default(): a value, or a producer function returning one
DefaultValue(v) == [how |-> "value", value |-> v]
DefaultProducer(v) == [how |-> "producer", value |-> v]
NoDefaultArg == [how |-> "none"]
NewDateProducer == DefaultProducer(CurrentTime)
DefaultArgs(base) ==
  CASE base = "ZodString" ->
         {DefaultValue(JsValue("string", FALSE, <<"active">>)),
          DefaultValue(JsValue("string", FALSE, <<"it", "'", "s">>))}
    [] base = "ZodNumber" -> {DefaultValue(JsValue("number", FALSE, <<"0">>))}
    [] base = "ZodBoolean" ->
         {DefaultValue(JsValue("boolean", FALSE, <<"true">>))}
    [] base = "ZodDate" ->
         {NewDateProducer,
          DefaultValue(JsValue("object", TRUE, <<"2020-01-01T00:00:00.000Z">>)),
          DefaultProducer(JsValue("function", FALSE, <<"() => new Date()">>))}
    [] base \in {"ZodObject", "ZodRecord"} ->
         {DefaultValue(JsValue("object", FALSE, <<"{}">>))}
    [] base = "ZodArray" -> {DefaultValue(JsValue("object", FALSE, <<"[]">>))}
    [] OTHER -> {DefaultValue(JsValue("string", FALSE, <<"user">>))}

ZodType(w, b, d) ==
  [wrappers |-> w, base |-> b.base, checks |-> b.checks, default |-> d]
ZodTypes ==
  {ZodType(w, b, NoDefaultArg) :
     w \in {x \in Wrappings : \A i \in DOMAIN x : x[i] # "ZodDefault"},
     b \in BaseTypes}
  \cup UNION {{ZodType(w, b, d) : d \in DefaultArgs(b.base)} :
         w \in {x \in Wrappings : \E i \in DOMAIN x : x[i] = "ZodDefault"},
         b \in BaseTypes}

\* zodType._def.typeName and zodType._def.innerType
typeNameOf(z) == IF z.wrappers = <<>> THEN z.base ELSE Head(z.wrappers)
innerType(z) == [z EXCEPT !.wrappers = Tail(@)]

\* zod's _def.defaultValue(): .default(v) stores v itself when v is a
\* function and () => v otherwise, so the call yields the value either way;
\* a `new Date()` in a producer is made now, at the clock's reading
defaultValueCall(d, clock) ==
  IF d.value = CurrentTime THEN JsValue("object", TRUE, <<clock>>) ELSE d.value

\* the letters of the field names, for endsWith and slice
charsOf(name) ==
  CASE name = "id" -> <<"i", "d">>
    [] name = "name" -> <<"n", "a", "m", "e">>
    [] name = "email" -> <<"e", "m", "a", "i", "l">>
    [] name = "role" -> <<"r", "o", "l", "e">>
    [] name = "status" -> <<"s", "t", "a", "t", "u", "s">>
    [] name = "lastActive" -> <<"l", "a", "s", "t", "A", "c", "t", "i", "v", "e">>
    [] name = "created_at" -> <<"c", "r", "e", "a", "t", "e", "d", "_", "a", "t">>
    [] name = "user_id" -> <<"u", "s", "e", "r", "_", "i", "d">>
    [] name = "company_id" -> <<"c", "o", "m", "p", "a", "n", "y", "_", "i", "d">>
    [] name = "updated_at" -> <<"u", "p", "d", "a", "t", "e", "d", "_", "a", "t">>
    [] name = "category_id" -> <<"c", "a", "t", "e", "g", "o", "r", "y", "_", "i", "d">>
    [] name = "class_id" -> <<"c", "l", "a", "s", "s", "_", "i", "d">>
    [] name = "dish_id" -> <<"d", "i", "s", "h", "_", "i", "d">>
    [] name = "branch_id" -> <<"b", "r", "a", "n", "c", "h", "_", "i", "d">>
    [] name = "box_id" -> <<"b", "o", "x", "_", "i", "d">>
    [] name = "quiz_id" -> <<"q", "u", "i", "z", "_", "i", "d">>
    [] name = "_id" -> <<"_", "i", "d">>
    [] OTHER -> <<name>>
endsWith(chars, suffix) ==
  /\ Len(chars) >= Len(suffix)
  /\ SubSeq(chars, Len(chars) - Len(suffix) + 1, Len(chars)) = suffix

\* value.replace(/'/g, "''")
RECURSIVE escapeQuotes(_)
escapeQuotes(text) ==
  IF text = <<>> THEN <<>>
  ELSE (IF Head(text) = "'" THEN <<"'", "'">> ELSE <<Head(text)>>)
         \o escapeQuotes(Tail(text))

formatDefaultValue(v) ==
  IF v.typeof = "string" THEN <<"'">> \o escapeQuotes(v.text) \o <<"'">>
  ELSE IF v.typeof \in {"number", "boolean"} THEN v.text
  ELSE IF v.isDate THEN <<"'">> \o v.text \o <<"'">>
  ELSE IF v.typeof = "object"
    THEN <<"'">> \o escapeQuotes(v.text) \o <<"'", "::jsonb">>
  ELSE <<"'">> \o escapeQuotes(v.text) \o <<"'">>

\* the loop returns at the first check that is a max <= 255 or a uuid
RECURSIVE getStringType(_)
getStringType(checks) ==
  IF checks = <<>> THEN "TEXT"
  ELSE IF Head(checks).kind = "max" /\ Head(checks).value <= VarcharLimit
    THEN "VARCHAR"
  ELSE IF Head(checks).kind = "uuid" THEN "UUID"
  ELSE getStringType(Tail(checks))

\* the loop returns at the first check that is an int or a finite
RECURSIVE getNumberType(_)
getNumberType(checks) ==
  IF checks = <<>> THEN "NUMERIC"
  ELSE IF Head(checks).kind = "int" THEN "INTEGER"
  ELSE IF Head(checks).kind = "finite" THEN "NUMERIC"
  ELSE getNumberType(Tail(checks))

\* an undefined defaultValue (the rendered text of a default is never empty)
NoDefault == <<>>

parseZodType(fieldName, zodType, clock) ==
  LET afterOptional ==
        IF typeNameOf(zodType) = "ZodOptional" THEN innerType(zodType)
        ELSE zodType
      hasDefault == typeNameOf(afterOptional) = "ZodDefault"
      defaultVal == defaultValueCall(afterOptional.default, clock)
      defaultValue ==
        IF ~hasDefault THEN NoDefault
        ELSE IF defaultVal.typeof = "function"
          THEN (IF defaultVal.text = <<"() => new Date()">> THEN <<"NOW()">>
                ELSE NoDefault)
        ELSE formatDefaultValue(defaultVal)
      inner == IF hasDefault THEN innerType(afterOptional) ELSE afterOptional
      typeName == typeNameOf(inner)
      type ==
        CASE typeName = "ZodString" -> getStringType(inner.checks)
          [] typeName = "ZodNumber" -> getNumberType(inner.checks)
          [] typeName = "ZodBoolean" -> "BOOLEAN"
          [] typeName = "ZodDate" -> "TIMESTAMP WITH TIME ZONE"
          [] typeName \in {"ZodObject", "ZodRecord", "ZodArray"} -> "JSONB"
          [] typeName = "ZodEnum" -> "TEXT"
          [] OTHER -> "TEXT"
  IN [name |-> fieldName, type |-> type, nullable |-> ~hasDefault,
      defaultValue |-> defaultValue, unique |-> FALSE]

shouldCreateIndex_listedOnly(fieldName) ==
  fieldName \in {"email", "name", "status", "type", "category"}
indexFields ==
  {"email", "name", "status", "type", "category", "user_id", "company_id"}
shouldCreateIndex(fieldName) ==
  fieldName \in indexFields \/ endsWith(charsOf(fieldName), <<"_", "i", "d">>)

pluralize_appendS(singular) == singular \o <<"s">>
\* singular.slice(0, -1) + 'ies', singular + 'es', singular + 's'
pluralize(singular) ==
  IF endsWith(singular, <<"y">>)
    THEN SubSeq(singular, 1, Len(singular) - 1) \o <<"i", "e", "s">>
  ELSE IF \E suffix \in {<<"s">>, <<"s", "h">>, <<"c", "h">>, <<"x">>, <<"z">>} :
            endsWith(singular, suffix)
    THEN singular \o <<"e", "s">>
  ELSE singular \o <<"s">>

NoReference == [table |-> <<>>, column |-> "none"]
extractReference(fieldName) ==
  LET chars == charsOf(fieldName)
  IN IF endsWith(chars, <<"_", "i", "d">>) /\ fieldName # "id"
       THEN [table |-> pluralize(SubSeq(chars, 1, Len(chars) - 3)),
             column |-> "id"]
     ELSE IF fieldName = "company_id"
       THEN [table |-> charsOf("companies"), column |-> "id"]
     ELSE NoReference

idColumn ==
  [name |-> "id", type |-> "UUID", nullable |-> FALSE, primaryKey |-> TRUE,
   defaultValue |-> <<"gen_random_uuid()">>]
timestampColumn(name) ==
  [name |-> name, type |-> "TIMESTAMP WITH TIME ZONE", nullable |-> FALSE,
   defaultValue |-> <<"NOW()">>]

parseZodObject(shape, tableName, clock) ==
  LET indexed == SelectSeq(shape, LAMBDA f : shouldCreateIndex(f.name))
      referring ==
        SelectSeq(shape, LAMBDA f : extractReference(f.name) # NoReference)
  IN [name |-> tableName,
      columns |->
        <<idColumn>>
        \o [i \in DOMAIN shape |->
              parseZodType(shape[i].name, shape[i].type, clock)]
        \o <<timestampColumn("created_at"), timestampColumn("updated_at")>>,
      indexes |->
        [i \in DOMAIN indexed |->
           [name |-> <<"idx_", tableName, "_", indexed[i].name>>,
            columns |-> <<indexed[i].name>>]],
      constraints |->
        [i \in DOMAIN referring |->
           [name |-> <<"fk_", tableName, "_", referring[i].name>>,
            type |-> "foreign_key",
            definition |->
              <<"FOREIGN KEY (", referring[i].name, ") REFERENCES ">>
              \o extractReference(referring[i].name).table
              \o <<"(", extractReference(referring[i].name).column, ")">>]]]

\* a property that is undefined, or false, is falsy
truthy(object, key) == key \in DOMAIN object /\ object[key]

\* one column's line of the CREATE TABLE statement
columnSQL(col) ==
  <<"\"", col.name, "\"", col.type>>
  \o (IF ~col.nullable THEN <<"NOT NULL">> ELSE <<>>)
  \o (IF col.defaultValue # NoDefault THEN <<"DEFAULT">> \o col.defaultValue
      ELSE <<>>)
  \o (IF truthy(col, "unique") /\ ~truthy(col, "primaryKey") THEN <<"UNIQUE">>
      ELSE <<>>)

triggerSQL_noDrop(tableName) ==
  <<<<"CREATE OR REPLACE FUNCTION", "update_updated_at_column()">>,
    <<"CREATE TRIGGER", "update_", tableName, "_updated_at",
      "BEFORE UPDATE ON", tableName,
      "FOR EACH ROW EXECUTE FUNCTION", "update_updated_at_column()">>>>
\* the statements that add the updated_at trigger
triggerSQL(tableName) ==
  <<<<"CREATE OR REPLACE FUNCTION", "update_updated_at_column()">>,
    <<"DROP TRIGGER IF EXISTS", "update_", tableName, "_updated_at",
      "ON", tableName>>,
    <<"CREATE TRIGGER", "update_", tableName, "_updated_at",
      "BEFORE UPDATE ON", tableName,
      "FOR EACH ROW EXECUTE FUNCTION", "update_updated_at_column()">>>>

\* the rendered DDL, as the list of its lines and statements
generateCreateTableSQL(tableDef) ==
  <<<<"CREATE TABLE IF NOT EXISTS", tableDef.name, "(">>>>
  \o [i \in DOMAIN tableDef.columns |-> columnSQL(tableDef.columns[i])]
  \o [i \in DOMAIN tableDef.constraints |->
        <<"CONSTRAINT">> \o tableDef.constraints[i].name
        \o tableDef.constraints[i].definition]
  \o <<<<");">>>>
  \o [i \in DOMAIN tableDef.indexes |->
        <<(IF truthy(tableDef.indexes[i], "unique") THEN "CREATE UNIQUE INDEX"
           ELSE "CREATE INDEX"), "IF NOT EXISTS">>
        \o tableDef.indexes[i].name \o <<"ON", tableDef.name>>
        \o tableDef.indexes[i].columns]
  \o triggerSQL(tableDef.name)

\* the schemas compiled: the users table of the documentation, and every
\* one-field and some two-field schemas over the field names
Field(name, type) == [name |-> name, type |-> type]
Plain(base, checks) == ZodType(<<>>, [base |-> base, checks |-> checks], NoDefaultArg)
UsersSchema ==
  <<Field("name", Plain("ZodString", <<Check("max", 100)>>)),
    Field("email", Plain("ZodString", <<>>)),
    Field("role", Plain("ZodEnum", <<>>)),
    Field("lastActive",
          ZodType(<<"ZodOptional">>, [base |-> "ZodDate", checks |-> <<>>],
                  NoDefaultArg))>>
\* field names that end in _id, one for each ending pluralize tells apart
ReferenceNames ==
  {"user_id", "company_id", "category_id", "class_id", "dish_id",
   "branch_id", "box_id", "quiz_id", "_id"}
DeclaredNames ==
  {"id", "name", "status", "lastActive", "created_at", "user_id", "company_id"}
Schemas ==
  {UsersSchema, <<>>}
  \cup {<<Field(n, t)>> : n \in DeclaredNames, t \in ZodTypes}
  \cup {<<Field(n, Plain("ZodString", <<Check("uuid", 0)>>)),
          Field(m, Plain("ZodDate", <<>>))>> :
          n \in {"id", "user_id"}, m \in {"created_at", "updated_at", "email"}}
  \cup {<<Field("name", Plain("ZodString", <<>>)),
          Field(p[1], Plain("ZodString", <<Check("uuid", 0)>>)),
          Field(p[2], Plain("ZodString", <<Check("uuid", 0)>>))>> :
          p \in {q \in ReferenceNames \X ReferenceNames : q[1] # q[2]}}
CompileTimes == {"2026-01-01T00:00:00.000Z", "2026-07-01T12:00:00.000Z"}

InitCompile ==
  /\ ManagerAtRest
  /\ stage = "declared"
  /\ input \in [table : {"users"}, schema : Schemas, clock : CompileTimes]
  /\ output = "none"

\* toPostgreSQL, first half: parseZodObject
Compile ==
  /\ stage = "declared"
  /\ stage' = "compiled"
  /\ output' = [table |-> parseZodObject(input.schema, input.table, input.clock)]
  /\ UNCHANGED <<input, managerVars>>

\* toPostgreSQL, second half: generateCreateTableSQL
Render ==
  /\ stage = "compiled"
  /\ stage' = "rendered"
  /\ output' = [table |-> output.table,
                ddl |-> generateCreateTableSQL(output.table)]
  /\ UNCHANGED <<input, managerVars>>

NextCompile == Compile \/ Render

SpecCompile == InitCompile /\ [][NextCompile]_vars

(* --------------- the rendered DDL applied to a target ------------------- *)

\* The target the endpoint applies the DDL of an ensure-table request to:
\* its tables (with their column and constraint lines), indexes, functions
\* and triggers, whether the tables that foreign keys name exist in it, and
\* whether the last application raised an error.
Target(tables, triggers, referable) ==
  [tables |-> tables, indexes |-> {}, functions |-> {}, triggers |-> triggers,
   referable |-> referable, failed |-> FALSE]
OlderTable(name) == [name |-> name, lines |-> <<<<"\"", "id", "\"", "UUID">>>>]
InitialTargets(tableName) ==
  {Target(t, g, r) :
     t \in {{}, {OlderTable(tableName)}},
     g \in {{}, {<<"update_", tableName, "_updated_at">>}},
     r \in BOOLEAN}

\* the statement that starts at line k of the DDL ends at this line
statementEnd(ddl, k) ==
  IF ddl[k][1] = "CREATE TABLE IF NOT EXISTS"
    THEN CHOOSE j \in k..Len(ddl) :
           ddl[j] = <<");">> /\ \A i \in k..(j - 1) : ddl[i] # <<");">>
    ELSE k

\* the effect of the statement at lines k..e on the target: a guarded
\* creation of something that exists does nothing, an unguarded one raises
\* an error, as does a table with two columns of one name or with a
\* foreign key to a table that does not exist
execute(ddl, k, e, target) ==
  LET first == ddl[k][1]
      body == SubSeq(ddl, k + 1, e - 1)
      columnLines == {i \in DOMAIN body : body[i][1] = "\""}
  IN CASE first = "CREATE TABLE IF NOT EXISTS" ->
            IF \E t \in target.tables : t.name = ddl[k][2] THEN target
            ELSE IF \/ \E i, j \in columnLines : i # j /\ body[i][2] = body[j][2]
                    \/ /\ \E i \in DOMAIN body : body[i][1] = "CONSTRAINT"
                       /\ ~target.referable
              THEN [target EXCEPT !.failed = TRUE]
            ELSE [target EXCEPT
                    !.tables = @ \cup {[name |-> ddl[k][2], lines |-> body]}]
       [] first \in {"CREATE INDEX", "CREATE UNIQUE INDEX"} ->
            LET guarded == ddl[k][2] = "IF NOT EXISTS"
                name == SubSeq(ddl[k], IF guarded THEN 3 ELSE 2,
                               IF guarded THEN 6 ELSE 5)
            IN IF name \in target.indexes
                 THEN (IF guarded THEN target
                       ELSE [target EXCEPT !.failed = TRUE])
               ELSE IF ~\E t \in target.tables : t.name = ddl[k][Len(ddl[k]) - 1]
                 THEN [target EXCEPT !.failed = TRUE]
               ELSE [target EXCEPT !.indexes = @ \cup {name}]
       [] first = "CREATE OR REPLACE FUNCTION" ->
            [target EXCEPT !.functions = @ \cup {ddl[k][2]}]
       [] first = "DROP TRIGGER IF EXISTS" ->
            [target EXCEPT !.triggers = @ \ {SubSeq(ddl[k], 2, 4)}]
       [] first = "CREATE TRIGGER" ->
            IF SubSeq(ddl[k], 2, 4) \in target.triggers
                 \/ ~\E t \in target.tables : t.name = ddl[k][6]
              THEN [target EXCEPT !.failed = TRUE]
            ELSE [target EXCEPT !.triggers = @ \cup {SubSeq(ddl[k], 2, 4)}]
       [] OTHER -> [target EXCEPT !.failed = TRUE]

\* the statements of the DDL from line k on, run in order up to the first
\* error
RECURSIVE applyFrom(_, _, _)
applyFrom(ddl, k, target) ==
  IF k > Len(ddl) \/ target.failed THEN target
  ELSE applyFrom(ddl, statementEnd(ddl, k) + 1,
                 execute(ddl, k, statementEnd(ddl, k), target))
applyDDL(ddl, target) == applyFrom(ddl, 1, [target EXCEPT !.failed = FALSE])

\* DatabaseManager.serializeZodSchema: Object.keys of the shape, each key
\* written as a record holding the name alone (zodSchema.description is
\* undefined for the schemas compiled here and so is left out of the body)
serializeZodSchema(schema) ==
  [shape |-> [i \in DOMAIN schema |-> [name |-> schema[i].name]]]

\* the body createTable posts to /ensure-table
ensureTableBody(tableName, schema, ddl) ==
  [endpoint |-> "/ensure-table", schemaName |-> schemaName,
   tableName |-> tableName, ddl |-> ddl,
   zodSchema |-> serializeZodSchema(schema)]

\* createTable posts the rendered DDL and the serialized schema
PostEnsureTable ==
  /\ stage = "rendered"
  /\ stage' = "posted"
  /\ output' = [table |-> output.table, ddl |-> output.ddl,
                request |-> ensureTableBody(input.table, input.schema,
                                            output.ddl)]
  /\ UNCHANGED <<input, managerVars>>

\* the endpoint applies the DDL of an ensure-table request
Apply(target) ==
  /\ stage = "posted"
  /\ stage' = "applied"
  /\ output' = [table |-> output.table, ddl |-> output.ddl,
                before |-> target,
                once |-> applyDDL(output.request.ddl, target)]
  /\ UNCHANGED <<input, managerVars>>

\* the endpoint applies the DDL of a second ensure-table request for the
\* same table, as two overlapping first calls send it
Reapply ==
  /\ stage = "applied"
  /\ stage' = "reapplied"
  /\ output' = [table |-> output.table, ddl |-> output.ddl,
                before |-> output.before, once |-> output.once,
                twice |-> applyDDL(output.ddl, output.once)]
  /\ UNCHANGED <<input, managerVars>>

NextApply ==
  \/ Compile
  \/ Render
  \/ PostEnsureTable
  \/ \E target \in InitialTargets(input.table) : Apply(target)
  \/ Reapply

SpecApply == InitCompile /\ [][NextApply]_vars

(* ---------------------- claims on the schema compiler ------------------- *)

\* the columns of a compiled table that have the given name
ColumnsNamed(table, name) ==
  {i \in DOMAIN table.columns : table.columns[i].name = name}
PrimaryKeyColumns(table) ==
  {i \in DOMAIN table.columns : truthy(table.columns[i], "primaryKey")}

\* C14: every compiled table has exactly one column named id, which is its
\* only primary-key column, exactly one column created_at and exactly one
\* column updated_at, whatever fields the schema declares.
C14_OneIdAndTimestamps ==
  stage \in {"compiled", "rendered"} =>
    /\ Cardinality(ColumnsNamed(output.table, "id")) = 1
    /\ PrimaryKeyColumns(output.table) = ColumnsNamed(output.table, "id")
    /\ Cardinality(ColumnsNamed(output.table, "created_at")) = 1
    /\ Cardinality(ColumnsNamed(output.table, "updated_at")) = 1

\* the lines of the rendered CREATE TABLE statement that hold the token
HasToken(line, token) == \E i \in DOMAIN line : line[i] = token
\* the line rendered for the table's first column
LeadingColumnLine == output.ddl[2]

\* C15: the rendered DDL opens its column list with the id column, of type
\* UUID with default gen_random_uuid(), and declares it the primary key.
C15_IdRenderedAsPrimaryKey ==
  stage = "rendered" =>
    /\ SubSeq(LeadingColumnLine, 1, 4) = <<"\"", "id", "\"", "UUID">>
    /\ \E i \in DOMAIN LeadingColumnLine :
         /\ LeadingColumnLine[i] = "DEFAULT"
         /\ LeadingColumnLine[i + 1] = "gen_random_uuid()"
    /\ \E l \in DOMAIN output.ddl : HasToken(output.ddl[l], "PRIMARY KEY")

\* the declared fields, the column compiled for the i-th of them and the
\* line rendered for it (the id column and the CREATE TABLE line precede)
DeclaredFields == DOMAIN input.schema
ColumnOf(i) == output.table.columns[i + 1]
LineOf(i) == output.ddl[i + 2]
HasModifier(zodType, m) ==
  \E k \in DOMAIN zodType.wrappers : zodType.wrappers[k] = m

\* the index statements of the rendered DDL, as the fields they are on
IndexedFields ==
  {output.table.indexes[i].columns[1] : i \in DOMAIN output.table.indexes}

\* C16: a declared field that is neither optional nor nullable is rendered
\* NOT NULL; an optional field (without a default) is rendered without
\* NOT NULL; the users table of the documentation is rendered with
\* name VARCHAR NOT NULL, email TEXT NOT NULL, role TEXT NOT NULL,
\* lastActive TIMESTAMP WITH TIME ZONE and no NOT NULL, and indexes on name
\* and email.
C16_RequiredFieldsNotNull ==
  stage = "rendered" =>
    /\ \A i \in DeclaredFields :
         LET zodType == input.schema[i].type
         IN /\ (~HasModifier(zodType, "ZodOptional")
                  /\ ~HasModifier(zodType, "ZodNullable"))
                 => (~ColumnOf(i).nullable /\ HasToken(LineOf(i), "NOT NULL"))
            /\ (HasModifier(zodType, "ZodOptional")
                  /\ ~HasModifier(zodType, "ZodDefault"))
                 => (ColumnOf(i).nullable /\ ~HasToken(LineOf(i), "NOT NULL"))
    /\ input.schema = UsersSchema =>
         /\ LineOf(1) = <<"\"", "name", "\"", "VARCHAR", "NOT NULL">>
         /\ LineOf(2) = <<"\"", "email", "\"", "TEXT", "NOT NULL">>
         /\ LineOf(3) = <<"\"", "role", "\"", "TEXT", "NOT NULL">>
         /\ LineOf(4) = <<"\"", "lastActive", "\"", "TIMESTAMP WITH TIME ZONE">>
         /\ IndexedFields = {"name", "email"}

\* the text that follows DEFAULT on a rendered line (<<>> when no DEFAULT)
DefaultClause(line) ==
  IF HasToken(line, "DEFAULT")
    THEN LET d == CHOOSE i \in DOMAIN line : line[i] = "DEFAULT"
         IN SubSeq(line, d + 1, Len(line))
    ELSE <<>>

\* C17: a declared field with a default, whatever the order in which
\* optional, nullable and default were applied, is rendered with a DEFAULT
\* clause (holding the default's literal when the default was given as a
\* value) and is NOT NULL exactly when it is not also nullable.
C17_DefaultInEveryWrappingOrder ==
  stage = "rendered" =>
    \A i \in DeclaredFields :
      LET zodType == input.schema[i].type
      IN HasModifier(zodType, "ZodDefault") =>
           /\ ColumnOf(i).defaultValue # NoDefault
           /\ DefaultClause(LineOf(i)) # <<>>
           /\ zodType.default.how = "value" =>
                DefaultClause(LineOf(i)) =
                  formatDefaultValue(zodType.default.value)
           /\ ColumnOf(i).nullable = HasModifier(zodType, "ZodNullable")
           /\ HasToken(LineOf(i), "NOT NULL")
                = ~HasModifier(zodType, "ZodNullable")

\* the wrapping orders in which parseZodType finds the default
DefaultFound(zodType) ==
  zodType.wrappers \in {<<"ZodDefault">>, <<"ZodOptional", "ZodDefault">>}

\* C18: a field whose default is the producer () => new Date() is rendered
\* with DEFAULT NOW(), not with the literal of the time at which the schema
\* was compiled; a default given as a value is rendered as its literal.
C18_CurrentTimeDefaultIsNow ==
  stage = "rendered" =>
    \A i \in DeclaredFields :
      LET zodType == input.schema[i].type
      IN DefaultFound(zodType) =>
           /\ zodType.default = NewDateProducer =>
                /\ DefaultClause(LineOf(i)) = <<"NOW()">>
                /\ DefaultClause(LineOf(i)) # <<"'", input.clock, "'">>
           /\ zodType.default.how = "value" =>
                DefaultClause(LineOf(i))
                  = formatDefaultValue(zodType.default.value)

\* the wrapping orders that parseZodType unwraps down to the base type
BaseReached(zodType) ==
  zodType.wrappers \in
    {<<>>, <<"ZodOptional">>, <<"ZodDefault">>, <<"ZodOptional", "ZodDefault">>}
HasCheck(zodType, kind) ==
  \E k \in DOMAIN zodType.checks : zodType.checks[k].kind = kind

\* C19: a string field with a uuid check compiles to UUID, whatever other
\* checks it has and in whatever order; without one, a max check of at most
\* 255 makes it VARCHAR; without either it is TEXT.
C19_StringTypeInEveryCheckOrder ==
  stage \in {"compiled", "rendered"} =>
    \A i \in DeclaredFields :
      LET zodType == input.schema[i].type
      IN (zodType.base = "ZodString" /\ BaseReached(zodType)) =>
           ColumnOf(i).type =
             IF HasCheck(zodType, "uuid") THEN "UUID"
             ELSE IF \E k \in DOMAIN zodType.checks :
                       /\ zodType.checks[k].kind = "max"
                       /\ zodType.checks[k].value <= VarcharLimit
               THEN "VARCHAR"
             ELSE "TEXT"

\* C20: a number field with an int check compiles to INTEGER, whatever
\* other checks it has and in whatever order; without one it is NUMERIC.
C20_NumberTypeInEveryCheckOrder ==
  stage \in {"compiled", "rendered"} =>
    \A i \in DeclaredFields :
      LET zodType == input.schema[i].type
      IN (zodType.base = "ZodNumber" /\ BaseReached(zodType)) =>
           ColumnOf(i).type =
             IF HasCheck(zodType, "int") THEN "INTEGER" ELSE "NUMERIC"

\* the table a field named <x>_id is to reference: x in the plural (y to
\* ies; s, sh, ch, x, z take es; anything else takes s), spelled out for
\* the field names compiled here
ReferencedTable(name) ==
  CASE name = "user_id" -> <<"u", "s", "e", "r", "s">>
    [] name = "company_id" -> <<"c", "o", "m", "p", "a", "n", "i", "e", "s">>
    [] name = "category_id" -> <<"c", "a", "t", "e", "g", "o", "r", "i", "e", "s">>
    [] name = "class_id" -> <<"c", "l", "a", "s", "s", "e", "s">>
    [] name = "dish_id" -> <<"d", "i", "s", "h", "e", "s">>
    [] name = "branch_id" -> <<"b", "r", "a", "n", "c", "h", "e", "s">>
    [] name = "box_id" -> <<"b", "o", "x", "e", "s">>
    [] name = "quiz_id" -> <<"q", "u", "i", "z", "e", "s">>
    [] name = "_id" -> <<"s">>
    [] OTHER -> <<>>

\* the foreign-key constraints compiled for a field
ConstraintsOn(name) ==
  {k \in DOMAIN output.table.constraints :
     output.table.constraints[k].name = <<"fk_", input.table, "_", name>>}

\* C21: a declared field whose name ends in _id gets exactly one
\* foreign-key constraint, on that field, referencing the id column of the
\* table named by the plural of the name without _id (company_id:
\* companies); every other declared field gets none, and there are no
\* further constraints.
C21_ForeignKeyPerIdField ==
  stage \in {"compiled", "rendered"} =>
    /\ \A i \in DeclaredFields :
         LET name == input.schema[i].name
         IN IF ReferencedTable(name) # <<>>
              THEN /\ Cardinality(ConstraintsOn(name)) = 1
                   /\ \A k \in ConstraintsOn(name) :
                        /\ output.table.constraints[k].type = "foreign_key"
                        /\ output.table.constraints[k].definition =
                             <<"FOREIGN KEY (", name, ") REFERENCES ">>
                             \o ReferencedTable(name) \o <<"(", "id", ")">>
              ELSE ConstraintsOn(name) = {}
    /\ Len(output.table.constraints) =
         Cardinality({i \in DeclaredFields :
                        ReferencedTable(input.schema[i].name) # <<>>})

C21_Witness ==
  /\ stage = "compiled"
  /\ Len(input.schema) = 3
  /\ input.schema[2].name = "company_id"
  /\ input.schema[3].name = "box_id"
  /\ Len(output.table.constraints) = 2
  /\ output.table.constraints[1].definition =
       <<"FOREIGN KEY (", "company_id", ") REFERENCES ",
         "c", "o", "m", "p", "a", "n", "i", "e", "s", "(", "id", ")">>

\* the declared field names, in declaration order
DeclaredNameList == [i \in DOMAIN input.schema |-> input.schema[i].name]
\* the names that are to be indexed: the common lookup fields and the
\* fields ending in _id, spelled out for the field names compiled here
IndexFlagged(name) ==
  name \in {"email", "name", "status"} \/ ReferencedTable(name) # <<>>
TimestampLine(name) ==
  <<"\"", name, "\"", "TIMESTAMP WITH TIME ZONE", "NOT NULL", "DEFAULT",
    "NOW()">>

\* C22: the rendered DDL is, in this order: the CREATE TABLE opening, the
\* id column, the declared columns in declaration order, created_at and
\* updated_at (NOT NULL DEFAULT NOW()), one foreign-key constraint per
\* referencing field, the closing, one CREATE INDEX IF NOT EXISTS
\* idx_<table>_<field> per flagged field, and the updated_at trigger of
\* the table last.
C22_DDLOrder ==
  stage = "rendered" =>
    LET ddl == output.ddl
        n == Len(input.schema)
        fk == SelectSeq(DeclaredNameList, LAMBDA f : ReferencedTable(f) # <<>>)
        ix == SelectSeq(DeclaredNameList, IndexFlagged)
        close == n + 5 + Len(fk)
    IN /\ Len(ddl) = close + Len(ix) + 3
       /\ ddl[1] = <<"CREATE TABLE IF NOT EXISTS", input.table, "(">>
       /\ SubSeq(ddl[2], 1, 3) = <<"\"", "id", "\"">>
       /\ \A i \in 1..n :
            SubSeq(ddl[2 + i], 1, 3) = <<"\"", DeclaredNameList[i], "\"">>
       /\ ddl[n + 3] = TimestampLine("created_at")
       /\ ddl[n + 4] = TimestampLine("updated_at")
       /\ \A k \in 1..Len(fk) :
            /\ SubSeq(ddl[n + 4 + k], 1, 5) =
                 <<"CONSTRAINT", "fk_", input.table, "_", fk[k]>>
            /\ SubSeq(ddl[n + 4 + k], 6, 7) = <<"FOREIGN KEY (", fk[k]>>
       /\ ddl[close] = <<");">>
       /\ \A k \in 1..Len(ix) :
            ddl[close + k] =
              <<"CREATE INDEX", "IF NOT EXISTS", "idx_", input.table, "_",
                ix[k], "ON", input.table, ix[k]>>
       /\ ddl[Len(ddl)][1] = "CREATE TRIGGER"
       /\ HasToken(ddl[Len(ddl)], "BEFORE UPDATE ON")
       /\ SubSeq(ddl[Len(ddl)], 2, 4) = <<"update_", input.table, "_updated_at">>
       /\ \A l \in 1..(Len(ddl) - 1) : ddl[l][1] # "CREATE TRIGGER"

C22_Witness ==
  /\ stage = "rendered"
  /\ DeclaredNameList = <<"name", "company_id", "box_id">>
  /\ Len(output.ddl) = 16
  /\ output.ddl[11][1] = "CREATE INDEX"
  /\ output.ddl[8][1] = "CONSTRAINT"

\* C23: when the DDL of a table is applied to a target to which it has
\* been applied without error, the second application raises no error and
\* leaves the tables, indexes, functions and triggers of the target as the
\* first application left them.
C23_DDLIdempotent ==
  (stage = "reapplied" /\ ~output.once.failed) =>
    /\ ~output.twice.failed
    /\ output.twice = output.once

C23_Witness ==
  /\ stage = "reapplied"
  /\ output.before = Target({}, {}, TRUE)
  /\ ~output.once.failed
  /\ DeclaredNameList = <<"name", "company_id", "box_id">>
  /\ Cardinality(output.once.tables) = 1
  /\ Cardinality(output.once.indexes) = 3
  /\ output.once.triggers = {<<"update_", "users", "_updated_at">>}
  /\ output.twice = output.once

\* C24: the body posted to /ensure-table carries the rendered DDL and a
\* schema descriptor that holds, for every declared field in declaration
\* order, its name, its base kind and its optional, nullable and hasDefault
\* flags.
C24_EnsureTableCarriesDescriptor ==
  stage = "posted" =>
    /\ output.request.ddl = output.ddl
    /\ DOMAIN output.request.zodSchema.shape = DeclaredFields
    /\ \A i \in DeclaredFields :
         LET field == output.request.zodSchema.shape[i]
             zodType == input.schema[i].type
         IN /\ field.name = input.schema[i].name
            /\ {"zodType", "optional", "nullable", "hasDefault"}
                 \subseteq DOMAIN field
            /\ field.zodType = zodType.base
            /\ field.optional = HasModifier(zodType, "ZodOptional")
            /\ field.nullable = HasModifier(zodType, "ZodNullable")
            /\ field.hasDefault = HasModifier(zodType, "ZodDefault")

(* ------------- the schema serializer (MetricsHubSchemaInstance) --------- *)

\* The field types given to the serializer. A composite type carries what
\* it is made of: an object its shape, an array its element type, a record
\* its value type; an enum carries its values and a literal its value.
Scalars == {"ZodString", "ZodNumber", "ZodBoolean", "ZodDate"}
ArrayOf(w, element, d) ==
  [wrappers |-> w, base |-> "ZodArray", checks |-> <<>>, default |-> d,
   type |-> element]
RecordOf(w, valueType, d) ==
  [wrappers |-> w, base |-> "ZodRecord", checks |-> <<>>, default |-> d,
   valueType |-> valueType]
ObjectOf(w, shape, d) ==
  [wrappers |-> w, base |-> "ZodObject", checks |-> <<>>, default |-> d,
   shape |-> shape]
EnumOf(w, values, d) ==
  [wrappers |-> w, base |-> "ZodEnum", checks |-> <<>>, default |-> d,
   values |-> values]
LiteralOf(w, value, d) ==
  [wrappers |-> w, base |-> "ZodLiteral", checks |-> <<>>, default |-> d,
   value |-> value]

OptionalString ==
  ZodType(<<"ZodOptional">>, [base |-> "ZodString", checks |-> <<>>],
          NoDefaultArg)
NullableOptionalInt ==
  ZodType(<<"ZodNullable", "ZodOptional">>,
          [base |-> "ZodNumber", checks |-> <<Check("int", 0)>>], NoDefaultArg)
ElementTypes ==
  {Plain("ZodString", <<Check("max", 100)>>), OptionalString,
   NullableOptionalInt,
   ArrayOf(<<>>, OptionalString, NoDefaultArg),
   ObjectOf(<<"ZodOptional">>,
            <<Field("tags", ArrayOf(<<>>, NullableOptionalInt, NoDefaultArg)),
              Field("name", OptionalString)>>,
            NoDefaultArg)}
\* the wrappings and defaults of the composite types of ZodTypes
Wrapped(base) == {z \in ZodTypes : z.base = base}
SerializableTypes ==
  {z \in ZodTypes : z.base \in Scalars}
  \cup {ArrayOf(z.wrappers, e, z.default) :
          z \in Wrapped("ZodArray"), e \in ElementTypes}
  \cup {RecordOf(z.wrappers, e, z.default) :
          z \in Wrapped("ZodRecord"), e \in ElementTypes}
  \cup {ObjectOf(z.wrappers, <<Field("inner", e), Field("name", OptionalString)>>,
                 z.default) :
          z \in Wrapped("ZodObject"), e \in ElementTypes}
  \cup {EnumOf(z.wrappers, <<"admin", "user">>, z.default) :
          z \in Wrapped("ZodEnum")}
  \cup {LiteralOf(z.wrappers, "fixed", z.default) : z \in Wrapped("ZodLiteral")}

\* serializeZodType: optional, then nullable, then default are unwrapped,
\* each once and in this order; then the type that is left is described
RECURSIVE serializeZodType(_, _)
RECURSIVE serializeZodObject(_, _)
serializeZodType(zodType, clock) ==
  LET optional == typeNameOf(zodType) = "ZodOptional"
      afterOptional == IF optional THEN innerType(zodType) ELSE zodType
      nullable == typeNameOf(afterOptional) = "ZodNullable"
      afterNullable == IF nullable THEN innerType(afterOptional)
                       ELSE afterOptional
      hasDefault == typeNameOf(afterNullable) = "ZodDefault"
      inner == IF hasDefault THEN innerType(afterNullable) ELSE afterNullable
      kind == typeNameOf(inner)
      flags == [type |-> typeNameOf(zodType), optional |-> optional,
                nullable |-> nullable]
      default ==
        IF hasDefault
          THEN [hasDefault |-> TRUE,
                defaultValue |-> defaultValueCall(afterNullable.default, clock)]
        ELSE EmptyObject
      described ==
        CASE kind = "ZodString" ->
               [zodType |-> "string", checks |-> inner.checks]
          [] kind = "ZodNumber" ->
               [zodType |-> "number", checks |-> inner.checks]
          [] kind = "ZodBoolean" -> [zodType |-> "boolean"]
          [] kind = "ZodDate" -> [zodType |-> "date"]
          [] kind = "ZodObject" ->
               [zodType |-> "object",
                shape |-> serializeZodObject(inner.shape, clock)]
          [] kind = "ZodArray" ->
               [zodType |-> "array",
                element |-> serializeZodType(inner.type, clock)]
          [] kind = "ZodRecord" ->
               [zodType |-> "record",
                valueType |-> serializeZodType(inner.valueType, clock)]
          [] kind = "ZodEnum" -> [zodType |-> "enum", values |-> inner.values]
          [] kind = "ZodLiteral" ->
               [zodType |-> "literal", value |-> inner.value]
          [] OTHER -> [zodType |-> "unknown"]
  IN spread(spread(flags, default), described)
\* serializeZodObject: the fields in Object.entries order, each under its
\* name
serializeZodObject(shape, clock) ==
  [i \in DOMAIN shape |->
     [name |-> shape[i].name,
      descriptor |-> serializeZodType(shape[i].type, clock)]]
\* toSerializable, for one table
toSerializable(schema, clock) == [shape |-> serializeZodObject(schema, clock)]

SerializeTimes == CompileTimes \cup {"2020-01-01T00:00:00.000Z"}
DateDefaults ==
  {z \in ZodTypes : z.base = "ZodDate" /\ z.wrappers = <<"ZodDefault">>}
SerializedSchemas ==
  {<<Field("status", t)>> : t \in SerializableTypes}
  \cup {<<Field("created", t), Field("lastActive", u)>> :
          t \in DateDefaults, u \in DateDefaults}

InitSerialize ==
  /\ ManagerAtRest
  /\ stage = "declared"
  /\ input \in [table : {"users"}, schema : SerializedSchemas,
                clock : CompileTimes, serializedAt : SerializeTimes]
  /\ output = "none"

\* the descriptor of the table's schema is made
Serialize ==
  /\ stage = "declared"
  /\ stage' = "serialized"
  /\ output' = [descriptor |-> toSerializable(input.schema, input.serializedAt)]
  /\ UNCHANGED <<input, managerVars>>

\* the same schema is compiled
CompileSerialized ==
  /\ stage = "serialized"
  /\ stage' = "both"
  /\ output' = [descriptor |-> output.descriptor,
                table |-> parseZodObject(input.schema, input.table, input.clock)]
  /\ UNCHANGED <<input, managerVars>>

NextSerialize == Serialize \/ CompileSerialized

SpecSerialize == InitSerialize /\ [][NextSerialize]_vars

(* ---------------------- claims on the schema serializer ----------------- *)

KindName(base) ==
  CASE base = "ZodString" -> "string"
    [] base = "ZodNumber" -> "number"
    [] base = "ZodBoolean" -> "boolean"
    [] base = "ZodDate" -> "date"
    [] base = "ZodObject" -> "object"
    [] base = "ZodArray" -> "array"
    [] base = "ZodRecord" -> "record"
    [] base = "ZodEnum" -> "enum"
    [] base = "ZodLiteral" -> "literal"

\* the descriptor holds the base kind, the three flags and the metadata of
\* the type, and so do the descriptors of what the type is made of
RECURSIVE Preserves(_, _)
RECURSIVE PreservesShape(_, _)
Preserves(d, zodType) ==
  /\ d.zodType = KindName(zodType.base)
  /\ d.optional = HasModifier(zodType, "ZodOptional")
  /\ d.nullable = HasModifier(zodType, "ZodNullable")
  /\ truthy(d, "hasDefault") = HasModifier(zodType, "ZodDefault")
  /\ zodType.base \in {"ZodString", "ZodNumber"} => d.checks = zodType.checks
  /\ zodType.base = "ZodEnum" => d.values = zodType.values
  /\ zodType.base = "ZodLiteral" => d.value = zodType.value
  /\ zodType.base = "ZodArray" => Preserves(d.element, zodType.type)
  /\ zodType.base = "ZodRecord" => Preserves(d.valueType, zodType.valueType)
  /\ zodType.base = "ZodObject" => PreservesShape(d.shape, zodType.shape)
PreservesShape(described, shape) ==
  /\ DOMAIN described = DOMAIN shape
  /\ \A i \in DOMAIN shape :
       /\ described[i].name = shape[i].name
       /\ Preserves(described[i].descriptor, shape[i].type)

\* C25: the descriptor of a schema lists its fields in declaration order
\* and holds, for every field and everything a field is made of, the base
\* kind, the optional, nullable and hasDefault flags and the metadata of
\* the kind, in whatever order the modifiers were applied.
C25_DescriptorPreservesFields ==
  stage \in {"serialized", "both"} =>
    PreservesShape(output.descriptor.shape, input.schema)

\* a compiled column without its name
Unnamed(col) == [k \in DOMAIN col \ {"name"} |-> col[k]]

\* C26: the column of a field can be derived from the field's descriptor:
\* two fields with the same descriptor compile to the same column (the
\* column re-derived from a descriptor is one column, so it can equal the
\* compiled column of every field with that descriptor only if those
\* compiled columns are equal).
C26_DescriptorDeterminesColumn ==
  stage = "both" =>
    \A i, j \in DOMAIN input.schema :
      output.descriptor.shape[i].descriptor
          = output.descriptor.shape[j].descriptor
        => Unnamed(ColumnOf(i)) = Unnamed(ColumnOf(j))

(* --------------------- the namespace of a DatabaseManager --------------- *)

\* appId and companyId values of a config, letter by letter; the empty
\* companyId also stands for a config without one
AppIds ==
  {<<"a", "b">>,
   <<"A", "b">>,
   <<"a", "-", "b">>,
   <<"a", "_", "b">>,
   <<"a", "b", "_", "c", "o", "m", "p", "a", "n", "y", "_", "c">>}
CompanyIds ==
  {<<>>,
   <<"u", "n", "k", "n", "o", "w", "n">>,
   <<"d">>,
   <<"D">>,
   <<"c", "_", "c", "o", "m", "p", "a", "n", "y", "_", "d">>,
   <<"d", ".", "e">>}
Configs == [appId : AppIds, companyId : CompanyIds]

\* [a-zA-Z0-9_] and toLowerCase, on the letters used here
Lower == {"a", "b", "c", "d", "e", "k", "m", "n", "o", "p", "u", "w", "y"}
Upper == {"A", "D"}
IdentifierSafe == Lower \cup Upper \cup {"_", "0", "1"}
toLowerCase(ch) ==
  CASE ch = "A" -> "a" [] ch = "D" -> "d" [] OTHER -> ch
\* id.replace(/[^a-zA-Z0-9_]/g, '_')
clean(id) ==
  [i \in DOMAIN id |-> IF id[i] \in IdentifierSafe THEN id[i] ELSE "_"]

\* `app_${cleanAppId}_company_${cleanCompanyId}`
generateSchemaName(appId, companyId) ==
  <<"a", "p", "p", "_">>
  \o [i \in DOMAIN appId |-> toLowerCase(clean(appId)[i])]
  \o <<"_", "c", "o", "m", "p", "a", "n", "y", "_">>
  \o clean(companyId)

\* config.companyId || 'unknown'
companyIdOrUnknown(config) ==
  IF config.companyId = <<>> THEN <<"u", "n", "k", "n", "o", "w", "n">>
  ELSE config.companyId
\* the constructor's this.schemaName
constructedSchemaName(config) ==
  generateSchemaName(config.appId, companyIdOrUnknown(config))

MaxRequests == 2

\* two SDK instances are about to be made, each from its own config
InitNamespace ==
  /\ ManagerAtRest
  /\ stage = "configured"
  /\ input \in [config : Configs, other : Configs]
  /\ output = "none"

\* new MetricsHubSDK(config, schema) for both configs: each DatabaseManager
\* computes its schemaName; the SDK keeps its own copy of the config
Construct ==
  /\ stage = "configured"
  /\ stage' = "constructed"
  /\ output' = [schemaName |-> constructedSchemaName(input.config),
                otherSchemaName |-> constructedSchemaName(input.other),
                sdkCompanyId |-> input.config.companyId,
                requests |-> <<>>]
  /\ UNCHANGED <<input, managerVars>>

updateConfig_recompute(companyId) ==
  [output EXCEPT
     !.sdkCompanyId = companyId,
     !.schemaName =
       generateSchemaName(input.config.appId,
                          companyIdOrUnknown([companyId |-> companyId]))]
\* MetricsHubSDK.updateConfig({ companyId }): the SDK's config and the
\* service clients' configs are replaced; the DatabaseManager is not told
updateConfig(companyId) == [output EXCEPT !.sdkCompanyId = companyId]

UpdateConfig(companyId) ==
  /\ stage = "constructed"
  /\ companyId # output.sdkCompanyId
  /\ output' = updateConfig(companyId)
  /\ UNCHANGED <<stage, input, managerVars>>

\* the first instance sends a request to one of its four endpoints; every
\* body has schemaName: this.schemaName
SendRequest(endpoint) ==
  /\ stage = "constructed"
  /\ Len(output.requests) < MaxRequests
  /\ output' = [output EXCEPT
                  !.requests = Append(@, [endpoint |-> endpoint,
                                          schemaName |-> output.schemaName])]
  /\ UNCHANGED <<stage, input, managerVars>>

NextNamespace ==
  \/ Construct
  \/ \E companyId \in CompanyIds : UpdateConfig(companyId)
  \/ \E endpoint \in Endpoints : SendRequest(endpoint)

SpecNamespace == InitNamespace /\ [][NextNamespace]_vars

(* ------------------------ claims on the namespace ----------------------- *)

\* C27: the namespace of an instance is the value computed from its appId
\* and companyId at construction, is made of letters, digits and
\* underscores only, and every request the instance sends carries it, also
\* after updateConfig has given the SDK another companyId.
C27_NamespaceFixedAtConstruction ==
  stage = "constructed" =>
    /\ output.schemaName = constructedSchemaName(input.config)
    /\ \A i \in DOMAIN output.schemaName :
         output.schemaName[i] \in IdentifierSafe
    /\ \A k \in DOMAIN output.requests :
         output.requests[k].schemaName = constructedSchemaName(input.config)

C27_Witness ==
  /\ stage = "constructed"
  /\ output.sdkCompanyId # input.config.companyId
  /\ Len(output.requests) = MaxRequests
  /\ output.requests[1].endpoint = "/check-table"
  /\ output.requests[MaxRequests].endpoint = "/query"
  /\ input.config.appId = <<"a", "-", "b">>

\* C28: two instances made from different (appId, companyId) pairs have
\* different namespaces.
C28_NamespaceInjective ==
  (stage = "constructed" /\ input.config # input.other)
    => output.schemaName # output.otherSchemaName

(* ------------------ further claims on the schema compiler --------------- *)

\* the field type with its modifiers taken off
Bare(zodType) == [zodType EXCEPT !.wrappers = <<>>, !.default = NoDefaultArg]

\* C29: the column type of a declared field is the column type of the
\* same field without its optional, nullable and default modifiers.
C29_TypeIndependentOfModifiers ==
  stage \in {"compiled", "rendered"} =>
    \A i \in DeclaredFields :
      ColumnOf(i).type =
        parseZodType(input.schema[i].name, Bare(input.schema[i].type),
                     input.clock).type

(* ------------- provisioning against a recovering control plane ---------- *)

\* the answers with which a control-plane endpoint answers successfully:
\* an OK response to check-table, a success:true body to the other two
SuccessfulCheckAnswers == {"exists", "absent", "noflag"}
SuccessfulResultAnswers == {"ok"}

\* what the control plane can answer now
AnswersNow(all, successful) == IF health = "healthy" THEN successful ELSE all

\* from here on the control plane answers successfully
Recover ==
  /\ health = "unreliable"
  /\ health' = "healthy"
  /\ UNCHANGED <<createdTables, pc, call, sent, lastAnswer, result, confirmed,
                 overlap>>
  /\ UNCHANGED pureVars

\* the request call c is waiting on is answered
Respond(c) ==
  \/ \E a \in AnswersNow(CheckAnswers, SuccessfulCheckAnswers) : CheckResponse(c, a)
  \/ \E a \in AnswersNow(ResultAnswers, SuccessfulResultAnswers) : SchemaResponse(c, a)
  \/ \E a \in AnswersNow(ResultAnswers, SuccessfulResultAnswers) : CreateResponse(c, a)
  \/ \E a \in ResultAnswers : QueryResponse(c, a)

\* the methods invoked here: every method starts with the same ensureTable
\* call; one that validates, one that does not, and delete are kept
LiveOperations == {"select", "insert", "delete"}

NextLive ==
  \/ \E c \in Calls, op \in LiveOperations, t \in TableNames :
       \E data \in ArgsOf(op) : Invoke(c, op, t, data)
  \/ \E c \in Calls : Respond(c)
  \/ Recover

\* every remote call eventually answers or fails: fetch settles, and the
\* continuation of the call that awaits it runs
SpecLive == Init /\ [][NextLive]_vars /\ \A c \in Calls : WF_vars(Respond(c))

\* the requests call c has sent to the control plane
NumControlPlane(c) ==
  Cardinality({i \in 1..Len(sent[c]) : sent[c][i].endpoint \in ControlPlane})

\* C30: a call sends at most three control-plane requests; a call inside
\* ensureTable can always take its next step whatever the other calls are
\* doing, and it eventually leaves ensureTable; and once the control plane
\* answers successfully, a call inside ensureTable eventually has its table
\* in the provisioning cache, whatever happened to earlier calls.
C30_EnsureTableTerminatesAndRecovers ==
  /\ [](\A c \in Calls : NumControlPlane(c) <= 3)
  /\ [](\A c \in Calls : pc[c] \in Provisioning => ENABLED Respond(c))
  /\ \A c \in Calls : (pc[c] \in Provisioning) ~> (pc[c] \notin Provisioning)
  /\ \A c \in Calls :
       (health = "healthy" /\ pc[c] \in Provisioning)
         ~> (tableKey(call[c].table) \in createdTables)

\* C30 witness: the first call's provisioning of a table failed, the control
\* plane recovered, and the second call provisioned the same table with
\* three control-plane requests.
C30_Witness ==
  /\ health = "healthy"
  /\ EnsureFailed(1)
  /\ call[2].table = call[1].table
  /\ NumControlPlane(2) = 3
  /\ pc[2] = "awaitQuery"
  /\ tableKey(call[2].table) \in createdTables
====
